---- MODULE Spec2Model ----
(***************************************************************************)
(* State-machine model of whoop_client: the OAuth2 handler with its token   *)
(* store and authorization URL (auth.py, OAuth2Handler), the request       *)
(* gateway (client.py, WhoopClient._request), the collection accessors and *)
(* the pagination helper (client.py, WhoopClient.get_cycle_collection /    *)
(* iterate_cycles).                                                        *)
(*                                                                         *)
(* Coroutines interleave only at an await of a network call, so one action *)
(* is one synchronous block of the code between two such awaits.           *)
(***************************************************************************)
EXTENDS Integers, Sequences, FiniteSets, TLC

\* ------------------------------------------------------------------ bounds
\* unit clock ticks allowed before and after the long jump
MaxTicks == 1
\* pages the server chain may hold (its last page carries no cursor)
MaxPages == 3
\* records per page
MaxRecs == 2

\* ------------------------------------------------------- program constants
\* auth.py:164  expires_in - 300
Buffer == 300
\* auth.py:195  set_tokens(..., expires_in: int = 3600)
DefaultExpiresIn == 3600
\* client.py:149  min(limit, 25)
MaxLimit == 25

\* ------------------------------------------------------------ value domains
\* Python's None for the Optional[str] fields
None == "None"
\* truthiness of an Optional[str]: None and "" are falsy
Truthy(s) == s # None /\ s # ""

\* the coroutines (callers) that may use one client concurrently
Procs == {1, 2}
\* access tokens the token endpoint may issue
ServerAccessTokens == {"a1", "a2"}
\* refresh_token of a token response: absent, empty, or a token
ServerRefreshTokens == {None, "", "r1"}
\* expires_in of a token response, on both sides of the 300 s buffer
ServerExpiresIn == {Buffer, Buffer + 1}

\* statuses on which raise_for_status raises: unauthorized, not found
ErrorStatuses == {401, 404}
\* the status of a token endpoint that refuses a code or a refresh token
TokenErrorStatuses == {400}
\* statuses a resource endpoint answers with
ResourceStatuses == {200, 401, 404}
\* httpx.Response.is_success
IsSuccess(s) == s \in 200..299
\* httpx.HTTPStatusError raised by raise_for_status for a response of status s
HTTPStatusError(s) ==
    CASE s = 400 -> "HTTPStatusError 400"
      [] s = 401 -> "HTTPStatusError 401"
      [] s = 404 -> "HTTPStatusError 404"

\* TokenResponse (auth.py:11-25); token_type and scope are carried along
TokenResponse(at, tt, e, rt, sc) ==
    [access_token |-> at, token_type |-> tt, expires_in |-> e,
     refresh_token |-> rt, scope |-> sc]

\* the bodies the token endpoint may answer with on success
ServerTokenResponses ==
    { TokenResponse(at, "bearer", e, rt, "read:cycles") :
        at \in ServerAccessTokens, e \in ServerExpiresIn,
        rt \in ServerRefreshTokens }

VARIABLES
    token_data,     \* OAuth2Handler._token_data: <<>> (None) or <<TokenResponse>>
    token_expiry,   \* OAuth2Handler._token_expiry: <<>> (None) or <<instant>>
    now,            \* datetime.now(timezone.utc), in seconds
    issue_time,     \* history: the clock when _store_token last ran, <<>> if never
    pc,             \* per coroutine: where it is suspended
    op,             \* per coroutine: the public operation it is running
    expiredRet,     \* what is_token_expired() last returned to the coroutine
    entryRT,        \* history: auth.refresh_token as _request evaluated it
    rtSent,         \* refresh_token argument of the refresh call in flight / made
    refreshed,      \* history: the request's refresh call has returned a token
    bearer,         \* token of the Authorization header of the dispatched request
    nRefresh,       \* history: token-endpoint refresh calls made by this request
    nResource,      \* history: resource-endpoint calls made by this request
    err,            \* exception the operation ended with, None if none
    wargs,          \* iterate_cycles: its arguments page_size, start, end
    next_token,     \* iterate_cycles: its local next_token
    pages,          \* history: the pages decoded so far; the last is `response`
    idx,            \* iterate_cycles: records of `response` yielded so far
    produced,       \* history: the records yielded to the consumer
    calls,          \* history: params of each _request made by the walk
    ret,            \* per coroutine: what its operation returned
    scopes,         \* OAuth2Handler.scopes
    ctor            \* the access_token and refresh_token arguments WhoopClient was constructed with

authVars == <<token_data, token_expiry, issue_time>>
gwVars == <<pc, expiredRet, entryRT, rtSent, refreshed, bearer, nRefresh,
            nResource, err>>
walkVars == <<wargs, next_token, pages, idx, produced, calls>>
vars == <<token_data, token_expiry, now, issue_time, pc, op, expiredRet,
          entryRT, rtSent, refreshed, bearer, nRefresh, nResource, err,
          wargs, next_token, pages, idx, produced, calls, ret, scopes, ctor>>

\* ---------------------------------------------------------------- auth.py
\* OAuth2Handler.access_token property
access_token_of(td) == IF td # <<>> THEN td[1].access_token ELSE None
access_token == access_token_of(token_data)

\* OAuth2Handler.refresh_token property
refresh_token_of(td) == IF td # <<>> THEN td[1].refresh_token ELSE None
refresh_token == refresh_token_of(token_data)

\* mutant: the expiry computed without the 5-minute buffer
ExpiryFor_NoBuffer(tok, t) == t + tok.expires_in

\* the expiry instant _store_token computes for a token stored at clock t
ExpiryFor(tok, t) == t + (tok.expires_in - Buffer)

\* mutant: a token is still fresh at its expiry instant
is_token_expired_at_Strict(te, t) == IF te = <<>> THEN TRUE ELSE t > te[1]

\* OAuth2Handler.is_token_expired, on an expiry value and a clock reading
is_token_expired_at(te, t) == IF te = <<>> THEN TRUE ELSE t >= te[1]
is_token_expired == is_token_expired_at(token_expiry, now)

\* mutant: a response without refresh_token keeps the one on record
store_token_KeepRefreshToken(tok) ==
    /\ token_data' =
          <<[tok EXCEPT !.refresh_token =
                 IF tok.refresh_token = None THEN refresh_token_of(token_data)
                 ELSE tok.refresh_token]>>
    /\ token_expiry' = <<ExpiryFor(tok, now)>>
    /\ issue_time' = <<now>>

\* mutant: the expiry is computed for the first credential only
store_token_StaleExpiry(tok) ==
    /\ token_data' = <<tok>>
    /\ token_expiry' = IF token_expiry = <<>> THEN <<ExpiryFor(tok, now)>>
                       ELSE token_expiry
    /\ issue_time' = <<now>>

\* OAuth2Handler._store_token
store_token(tok) ==
    /\ token_data' = <<tok>>
    /\ token_expiry' = <<ExpiryFor(tok, now)>>
    /\ issue_time' = <<now>>

\* A str is modelled as the sequence of its pieces: words that urlencode
\* leaves as they are, and the single characters it rewrites.
\* urllib.parse.quote_plus on one piece
quote_plus(c) ==
    CASE c = " " -> "+"
      [] c = ":" -> "%3A"
      [] c = "/" -> "%2F"
      [] c = "&" -> "%26"
      [] c = "=" -> "%3D"
      [] OTHER -> c
QuotePlus(str) == [i \in 1..Len(str) |-> quote_plus(str[i])]

\* sep.join(strs)
RECURSIVE Join(_, _)
Join(strs, sep) ==
    IF strs = <<>> THEN <<>>
    ELSE IF Len(strs) = 1 THEN strs[1]
    ELSE strs[1] \o sep \o Join(Tail(strs), sep)

\* urllib.parse.urlencode of a dict given as its <<key, value>> items in
\* insertion order
urlencode(params) ==
    Join([i \in 1..Len(params) |->
            QuotePlus(params[i][1]) \o <<"=">> \o QuotePlus(params[i][2])],
         <<"&">>)

\* OAuth2Handler.__init__ (auth.py:59-72)
ClientId == <<"test_client">>
RedirectUri ==
    <<"http", ":", "/", "/", "localhost", ":", "8000", "/", "callback">>
AuthBaseUrl == <<"https://api.prod.whoop.com/oauth/oauth2/auth">>
DefaultScopes ==
    << <<"read", ":", "recovery">>, <<"read", ":", "cycles">>,
       <<"read", ":", "workout">>, <<"read", ":", "sleep">>,
       <<"read", ":", "profile">>, <<"read", ":", "body_measurement">> >>

\* an Optional value here is <<>> for None and <<v>> for the value v;
\* truth of an Optional[str] or Optional[List[str]]: None and empty are falsy
TruthyOpt(o) == o # <<>> /\ o[1] # <<>>

\* mutant: the state is added whenever it is not None
get_authorization_url_IsNotNone(sc, state) ==
    LET params == << <<<<"response_type">>, <<"code">>>>,
                     <<<<"client_id">>, ClientId>>,
                     <<<<"redirect_uri">>, RedirectUri>>,
                     <<<<"scope">>, Join(sc, <<" ">>)>> >>
                  \o (IF state # <<>> THEN << <<<<"state">>, state[1]>> >>
                      ELSE <<>>)
    IN AuthBaseUrl \o <<"?">> \o urlencode(params)

\* OAuth2Handler.get_authorization_url (auth.py:77-96) of a handler whose
\* scopes are sc
get_authorization_url(sc, state) ==
    LET params == << <<<<"response_type">>, <<"code">>>>,
                     <<<<"client_id">>, ClientId>>,
                     <<<<"redirect_uri">>, RedirectUri>>,
                     <<<<"scope">>, Join(sc, <<" ">>)>> >>
                  \o (IF TruthyOpt(state) THEN << <<<<"state">>, state[1]>> >>
                      ELSE <<>>)
    IN AuthBaseUrl \o <<"?">> \o urlencode(params)

\* what an operation has returned to its caller: the TokenResponse of
\* exchange_code / refresh_access_token as <<tok>>, the str of
\* get_authorization_url; both empty when it returned neither
NoRet == [token |-> <<>>, url |-> <<>>]

\* --------------------------------------------------------------- client.py
\* mutant: the request is dispatched without the access-token check
GatewayDispatch_NoCheck(p, td) ==
    /\ pc' = [pc EXCEPT ![p] = "resource_wait"]
    /\ err' = [err EXCEPT ![p] = None]
    /\ bearer' = [bearer EXCEPT ![p] = access_token_of(td)]
    /\ nResource' = [nResource EXCEPT ![p] = 1]

\* mutant: the header is built from the token that was on record when
\* _request was entered
GatewayDispatch_StaleRecord(p, td) ==
    IF ~Truthy(access_token_of(token_data))
    THEN /\ pc' = [pc EXCEPT ![p] = "failed"]
         /\ err' = [err EXCEPT ![p] = "ValueError"]
         /\ bearer' = [bearer EXCEPT ![p] = None]
         /\ nResource' = [nResource EXCEPT ![p] = 0]
    ELSE /\ pc' = [pc EXCEPT ![p] = "resource_wait"]
         /\ err' = [err EXCEPT ![p] = None]
         /\ bearer' = [bearer EXCEPT ![p] = access_token_of(token_data)]
         /\ nResource' = [nResource EXCEPT ![p] = 1]

\* WhoopClient._request from the header construction to the transport call
\* (client.py:92-105), run against the token data td on record at that point.
GatewayDispatch(p, td) ==
    IF ~Truthy(access_token_of(td))
    THEN /\ pc' = [pc EXCEPT ![p] = "failed"]
         /\ err' = [err EXCEPT ![p] = "ValueError"]
         /\ bearer' = [bearer EXCEPT ![p] = None]
         /\ nResource' = [nResource EXCEPT ![p] = 0]
    ELSE /\ pc' = [pc EXCEPT ![p] = "resource_wait"]
         /\ err' = [err EXCEPT ![p] = None]
         /\ bearer' = [bearer EXCEPT ![p] = access_token_of(td)]
         /\ nResource' = [nResource EXCEPT ![p] = 1]

\* mutant: _request never refreshes
GatewayEntry_NoRefresh(p) ==
    /\ expiredRet' = [expiredRet EXCEPT ![p] = is_token_expired]
    /\ entryRT' = [entryRT EXCEPT ![p] = refresh_token]
    /\ refreshed' = [refreshed EXCEPT ![p] = FALSE]
    /\ rtSent' = [rtSent EXCEPT ![p] = None]
    /\ nRefresh' = [nRefresh EXCEPT ![p] = 0]
    /\ GatewayDispatch(p, token_data)

\* WhoopClient._request from its entry to its first await (client.py:88-105):
\* the refresh call if the token is expired and a refresh token is on record,
\* the resource call (or the ValueError) otherwise.
GatewayEntry(p) ==
    /\ expiredRet' = [expiredRet EXCEPT ![p] = is_token_expired]
    /\ entryRT' = [entryRT EXCEPT ![p] = refresh_token]
    /\ refreshed' = [refreshed EXCEPT ![p] = FALSE]
    /\ IF is_token_expired /\ Truthy(refresh_token)
       THEN /\ pc' = [pc EXCEPT ![p] = "refresh_wait"]
            /\ rtSent' = [rtSent EXCEPT ![p] = refresh_token]
            /\ nRefresh' = [nRefresh EXCEPT ![p] = 1]
            /\ nResource' = [nResource EXCEPT ![p] = 0]
            /\ bearer' = [bearer EXCEPT ![p] = None]
            /\ err' = [err EXCEPT ![p] = None]
       ELSE /\ rtSent' = [rtSent EXCEPT ![p] = None]
            /\ nRefresh' = [nRefresh EXCEPT ![p] = 0]
            /\ GatewayDispatch(p, token_data)

\* the walk-local values of a coroutine that runs no walk
NoArgs == [page_size |-> 0, start |-> None, end |-> None]
ClearWalk(p) ==
    /\ wargs' = [wargs EXCEPT ![p] = NoArgs]
    /\ next_token' = [next_token EXCEPT ![p] = None]
    /\ pages' = [pages EXCEPT ![p] = <<>>]
    /\ idx' = [idx EXCEPT ![p] = 0]
    /\ produced' = [produced EXCEPT ![p] = <<>>]
    /\ calls' = [calls EXCEPT ![p] = <<>>]

\* a coroutine that is not inside an operation
Free(p) == pc[p] \in {"idle", "done", "failed", "closed", "exhausted"}

\* a caller awaits a single-resource accessor (get_profile_basic,
\* get_cycle_by_id, ...): the accessor awaits _request at once
RequestStart(p) ==
    /\ Free(p)
    /\ op' = [op EXCEPT ![p] = "request"]
    /\ GatewayEntry(p)
    /\ ClearWalk(p)
    /\ ret' = [ret EXCEPT ![p] = NoRet]
    /\ UNCHANGED <<authVars, now, scopes, ctor>>

\* mutant: _request goes on with the token on record when the refresh fails
RefreshRespond_DispatchOnFailure(p, Toks) ==
    /\ pc[p] = "refresh_wait"
    /\ \/ \E tok \in Toks :
            /\ store_token(tok)
            /\ refreshed' = [refreshed EXCEPT ![p] = TRUE]
            /\ GatewayDispatch(p, <<tok>>)
            /\ UNCHANGED ret
       \/ /\ GatewayDispatch(p, token_data)
          /\ UNCHANGED <<authVars, refreshed, ret>>
    /\ UNCHANGED <<now, scopes, ctor, op, expiredRet, entryRT, rtSent, nRefresh,
                   walkVars>>

\* mutant: a refresh answer is dropped when another refresh has replaced
\* the refresh token this call was sent with
RefreshRespond_FirstWins(p, Toks) ==
    /\ pc[p] = "refresh_wait"
    /\ \/ \E tok \in Toks :
            /\ IF op[p] = "request" /\ refresh_token # rtSent[p]
               THEN UNCHANGED authVars
               ELSE store_token(tok)
            /\ refreshed' = [refreshed EXCEPT ![p] = TRUE]
            /\ IF op[p] = "refresh"
               THEN /\ pc' = [pc EXCEPT ![p] = "done"]
                    /\ ret' = [ret EXCEPT ![p] = [NoRet EXCEPT !.token = <<tok>>]]
                    /\ UNCHANGED <<err, bearer, nResource>>
               ELSE /\ GatewayDispatch(p, token_data')
                    /\ UNCHANGED ret
       \/ /\ pc' = [pc EXCEPT ![p] = "failed"]
          /\ \E s \in TokenErrorStatuses :
                err' = [err EXCEPT ![p] = HTTPStatusError(s)]
          /\ UNCHANGED <<authVars, refreshed, bearer, nResource, ret>>
       \/ /\ pc' = [pc EXCEPT ![p] = "failed"]
          /\ err' = [err EXCEPT ![p] = "ValidationError"]
          /\ UNCHANGED <<authVars, refreshed, bearer, nResource, ret>>
    /\ UNCHANGED <<now, scopes, ctor, op, expiredRet, entryRT, rtSent, nRefresh,
                   walkVars>>

\* mutant: after its refresh _request sends the access token it found on
\* entry
RefreshRespond_StaleBearer(p, Toks) ==
    /\ pc[p] = "refresh_wait"
    /\ \/ \E tok \in Toks :
            /\ store_token(tok)
            /\ refreshed' = [refreshed EXCEPT ![p] = TRUE]
            /\ IF op[p] = "refresh"
               THEN /\ pc' = [pc EXCEPT ![p] = "done"]
                    /\ ret' = [ret EXCEPT ![p] = [NoRet EXCEPT !.token = <<tok>>]]
                    /\ UNCHANGED <<err, bearer, nResource>>
               ELSE /\ GatewayDispatch(p, token_data)
                    /\ UNCHANGED ret
       \/ /\ pc' = [pc EXCEPT ![p] = "failed"]
          /\ \E s \in TokenErrorStatuses :
                err' = [err EXCEPT ![p] = HTTPStatusError(s)]
          /\ UNCHANGED <<authVars, refreshed, bearer, nResource, ret>>
       \/ /\ pc' = [pc EXCEPT ![p] = "failed"]
          /\ err' = [err EXCEPT ![p] = "ValidationError"]
          /\ UNCHANGED <<authVars, refreshed, bearer, nResource, ret>>
    /\ UNCHANGED <<now, scopes, ctor, op, expiredRet, entryRT, rtSent, nRefresh,
                   walkVars>>

\* the token endpoint answers refresh_access_token (auth.py:149-153): the
\* token is stored and returned, to the caller of a direct call, or to
\* _request, which drops it and goes on to the resource call
\* (client.py:92-105)
RefreshRespond(p, Toks) ==
    /\ pc[p] = "refresh_wait"
    /\ \/ \E tok \in Toks :
            /\ store_token(tok)
            /\ refreshed' = [refreshed EXCEPT ![p] = TRUE]
            /\ IF op[p] = "refresh"
               THEN /\ pc' = [pc EXCEPT ![p] = "done"]
                    /\ ret' = [ret EXCEPT ![p] = [NoRet EXCEPT !.token = <<tok>>]]
                    /\ UNCHANGED <<err, bearer, nResource>>
               ELSE /\ GatewayDispatch(p, <<tok>>)
                    /\ UNCHANGED ret
       \/ \* non-2xx: raise_for_status raises, nothing is stored
          /\ pc' = [pc EXCEPT ![p] = "failed"]
          /\ \E s \in TokenErrorStatuses :
                err' = [err EXCEPT ![p] = HTTPStatusError(s)]
          /\ UNCHANGED <<authVars, refreshed, bearer, nResource, ret>>
       \/ \* 2xx with a body TokenResponse(**...) rejects
          /\ pc' = [pc EXCEPT ![p] = "failed"]
          /\ err' = [err EXCEPT ![p] = "ValidationError"]
          /\ UNCHANGED <<authVars, refreshed, bearer, nResource, ret>>
    /\ UNCHANGED <<now, scopes, ctor, op, expiredRet, entryRT, rtSent, nRefresh,
                   walkVars>>

\* mutant: a 401 answer makes _request refresh the token and try again
ResourceReply_RefreshOn401(p, s) ==
    /\ pc[p] = "resource_wait"
    /\ op[p] = "request"
    /\ IF IsSuccess(s)
       THEN /\ pc' = [pc EXCEPT ![p] = "done"]
            /\ UNCHANGED <<err, nRefresh>>
       ELSE IF s = 401 /\ nRefresh[p] = 0
       THEN /\ pc' = [pc EXCEPT ![p] = "refresh_wait"]
            /\ nRefresh' = [nRefresh EXCEPT ![p] = 1]
            /\ UNCHANGED err
       ELSE /\ pc' = [pc EXCEPT ![p] = "failed"]
            /\ err' = [err EXCEPT ![p] = HTTPStatusError(s)]
            /\ UNCHANGED nRefresh
    /\ UNCHANGED <<authVars, now, scopes, ctor, ret, op, expiredRet, entryRT, rtSent, refreshed,
                   bearer, nResource, walkVars>>

\* the resource endpoint answers a single-resource request with status s
\* (client.py:106-107): the response is returned, or raise_for_status raises
ResourceReply(p, s) ==
    /\ pc[p] = "resource_wait"
    /\ op[p] = "request"
    /\ IF IsSuccess(s)
       THEN /\ pc' = [pc EXCEPT ![p] = "done"]
            /\ UNCHANGED err
       ELSE /\ pc' = [pc EXCEPT ![p] = "failed"]
            /\ err' = [err EXCEPT ![p] = HTTPStatusError(s)]
    /\ UNCHANGED <<authVars, now, scopes, ctor, ret, op, expiredRet, entryRT, rtSent, refreshed,
                   bearer, nRefresh, nResource, walkVars>>

ResourceRespond(p) == \E s \in ResourceStatuses : ResourceReply(p, s)

\* the request-local values of a coroutine outside _request
ClearRequest(p) ==
    /\ expiredRet' = [expiredRet EXCEPT ![p] = FALSE]
    /\ entryRT' = [entryRT EXCEPT ![p] = None]
    /\ rtSent' = [rtSent EXCEPT ![p] = None]
    /\ refreshed' = [refreshed EXCEPT ![p] = FALSE]
    /\ bearer' = [bearer EXCEPT ![p] = None]
    /\ nRefresh' = [nRefresh EXCEPT ![p] = 0]
    /\ nResource' = [nResource EXCEPT ![p] = 0]
    /\ err' = [err EXCEPT ![p] = None]

\* OAuth2Handler.exchange_code up to its await of the POST (auth.py:110-120)
ExchangeCode(p) ==
    /\ Free(p)
    /\ op' = [op EXCEPT ![p] = "exchange"]
    /\ pc' = [pc EXCEPT ![p] = "exchange_wait"]
    /\ ClearRequest(p)
    /\ ClearWalk(p)
    /\ ret' = [ret EXCEPT ![p] = NoRet]
    /\ UNCHANGED <<authVars, now, scopes, ctor>>

\* mutant: a failed exchange_code forgets the credential on record
ExchangeRespond_ClearsOnFailure(p) ==
    /\ pc[p] = "exchange_wait"
    /\ \/ \E tok \in ServerTokenResponses :
            /\ store_token(tok)
            /\ pc' = [pc EXCEPT ![p] = "done"]
            /\ ret' = [ret EXCEPT ![p] = [NoRet EXCEPT !.token = <<tok>>]]
            /\ UNCHANGED err
       \/ /\ pc' = [pc EXCEPT ![p] = "failed"]
          /\ \E s \in TokenErrorStatuses :
                err' = [err EXCEPT ![p] = HTTPStatusError(s)]
          /\ token_data' = <<>>
          /\ token_expiry' = <<>>
          /\ issue_time' = <<>>
          /\ UNCHANGED ret
       \/ /\ pc' = [pc EXCEPT ![p] = "failed"]
          /\ err' = [err EXCEPT ![p] = "ValidationError"]
          /\ UNCHANGED <<authVars, ret>>
    /\ UNCHANGED <<now, scopes, ctor, op, expiredRet, entryRT, rtSent, refreshed, bearer,
                   nRefresh, nResource, walkVars>>

\* the token endpoint answers exchange_code (auth.py:121-125)
ExchangeRespond(p) ==
    /\ pc[p] = "exchange_wait"
    /\ \/ \E tok \in ServerTokenResponses :
            /\ store_token(tok)
            /\ pc' = [pc EXCEPT ![p] = "done"]
            /\ ret' = [ret EXCEPT ![p] = [NoRet EXCEPT !.token = <<tok>>]]
            /\ UNCHANGED err
       \/ /\ pc' = [pc EXCEPT ![p] = "failed"]
          /\ \E s \in TokenErrorStatuses :
                err' = [err EXCEPT ![p] = HTTPStatusError(s)]
          /\ UNCHANGED <<authVars, ret>>
       \/ /\ pc' = [pc EXCEPT ![p] = "failed"]
          /\ err' = [err EXCEPT ![p] = "ValidationError"]
          /\ UNCHANGED <<authVars, ret>>
    /\ UNCHANGED <<now, scopes, ctor, op, expiredRet, entryRT, rtSent, refreshed, bearer,
                   nRefresh, nResource, walkVars>>

\* ------------------------------------------------- client.py, pagination
\* datetime.isoformat() of a caller's datetime (client.py:152, 154)
isoformat(d) == <<"isoformat", d>>

\* mutant: the caller's limit is passed on as it is
Min_NoClamp(a, b) == a

Min(a, b) == IF a <= b THEN a ELSE b

\* mutant: every parameter is sent, a missing one as null
CollectionParams_SendsNull(limit, start, end, nt) ==
    [k \in {"limit", "start", "end", "nextToken"} |->
          CASE k = "limit" -> Min(limit, MaxLimit)
            [] k = "start" -> isoformat(start)
            [] k = "end" -> isoformat(end)
            [] k = "nextToken" -> nt]

\* the query get_cycle_collection builds (client.py:149-156): a dict that
\* holds a key only when the code sets it
CollectionParams(limit, start, end, nt) ==
    LET keys == {"limit"}
                \cup (IF start # None THEN {"start"} ELSE {})
                \cup (IF end # None THEN {"end"} ELSE {})
                \cup (IF Truthy(nt) THEN {"nextToken"} ELSE {})
    IN [k \in keys |->
          CASE k = "limit" -> Min(limit, MaxLimit)
            [] k = "start" -> isoformat(start)
            [] k = "end" -> isoformat(end)
            [] k = "nextToken" -> nt]

\* values the server may give next_token: null, empty, or a token
Cursors == {None, "", "t1", "t2"}

\* the key is missing from the JSON body
Absent == "Absent"

\* what a page body may hold for next_token: a value of Cursors, or no key
PageCursors == {None, "", "t1", "t2", Absent}

\* servers that hand out one cursor only
CursorsT1 == {None, "t1"}
CursorsT2 == {None, "t2"}

\* the JSON body of the k-th page the server serves in a walk: n records,
\* told apart by their place in the server's data, and next_token c (null,
\* a string, or no such key); an empty page may also lack "records"
ServerBody(k, n, c, withRecords) ==
    LET keys == (IF withRecords THEN {"records"} ELSE {})
                \cup (IF c # Absent THEN {"next_token"} ELSE {})
    IN [f \in keys |->
          IF f = "records" THEN [j \in 1..n |-> <<k, j>>] ELSE c]

\* PaginatedCycleResponse(**body): records defaults to an empty list
\* (models/cycle.py:101-104), next_token to None (models/common.py:29-32)
PaginatedCycleResponse(body) ==
    [records |-> IF "records" \in DOMAIN body THEN body.records ELSE <<>>,
     next_token |-> IF "next_token" \in DOMAIN body THEN body.next_token ELSE None]

\* mutant: the fetch passes the cursor the loop held before this page
WalkFetch_StaleCursor(p, cursor) ==
    /\ next_token' = [next_token EXCEPT ![p] = cursor]
    /\ idx' = [idx EXCEPT ![p] = 0]
    /\ calls' = [calls EXCEPT ![p] =
                   Append(@, CollectionParams(wargs[p].page_size, wargs[p].start,
                                              wargs[p].end, next_token[p]))]
    /\ UNCHANGED produced
    /\ GatewayEntry(p)

\* iterate_cycles: one pass of `while True` from the call of
\* get_cycle_collection to the await inside _request (client.py:383-385,
\* 149-158, 88-105), with the cursor the loop holds
WalkFetch(p, cursor) ==
    /\ next_token' = [next_token EXCEPT ![p] = cursor]
    /\ idx' = [idx EXCEPT ![p] = 0]
    /\ calls' = [calls EXCEPT ![p] =
                   Append(@, CollectionParams(wargs[p].page_size, wargs[p].start,
                                              wargs[p].end, cursor))]
    /\ UNCHANGED produced
    /\ GatewayEntry(p)

\* mutant: the for loop stops one record short of the page
WalkAdvance_DropLast(p, page, i) ==
    IF i + 1 < Len(page.records)
    THEN /\ produced' = [produced EXCEPT ![p] = Append(@, page.records[i + 1])]
         /\ idx' = [idx EXCEPT ![p] = i + 1]
         /\ pc' = [pc EXCEPT ![p] = "yielded"]
         /\ UNCHANGED <<next_token, calls, expiredRet, entryRT, rtSent,
                        refreshed, bearer, nRefresh, nResource, err>>
    ELSE IF ~Truthy(page.next_token)
    THEN /\ pc' = [pc EXCEPT ![p] = "done"]
         /\ UNCHANGED <<next_token, idx, produced, calls, expiredRet, entryRT,
                        rtSent, refreshed, bearer, nRefresh, nResource, err>>
    ELSE WalkFetch(p, page.next_token)

\* mutant: the walk also ends on a page without records
WalkAdvance_StopOnEmpty(p, page, i) ==
    IF i < Len(page.records)
    THEN /\ produced' = [produced EXCEPT ![p] = Append(@, page.records[i + 1])]
         /\ idx' = [idx EXCEPT ![p] = i + 1]
         /\ pc' = [pc EXCEPT ![p] = "yielded"]
         /\ UNCHANGED <<next_token, calls, expiredRet, entryRT, rtSent,
                        refreshed, bearer, nRefresh, nResource, err>>
    ELSE IF ~Truthy(page.next_token) \/ Len(page.records) = 0
    THEN /\ pc' = [pc EXCEPT ![p] = "done"]
         /\ UNCHANGED <<next_token, idx, produced, calls, expiredRet, entryRT,
                        rtSent, refreshed, bearer, nRefresh, nResource, err>>
    ELSE WalkFetch(p, page.next_token)

\* mutant: the walk ends only on an empty-string cursor, not on None
WalkAdvance_IgnoreNull(p, page, i) ==
    IF i < Len(page.records)
    THEN /\ produced' = [produced EXCEPT ![p] = Append(@, page.records[i + 1])]
         /\ idx' = [idx EXCEPT ![p] = i + 1]
         /\ pc' = [pc EXCEPT ![p] = "yielded"]
         /\ UNCHANGED <<next_token, calls, expiredRet, entryRT, rtSent,
                        refreshed, bearer, nRefresh, nResource, err>>
    ELSE IF page.next_token = ""
    THEN /\ pc' = [pc EXCEPT ![p] = "done"]
         /\ UNCHANGED <<next_token, idx, produced, calls, expiredRet, entryRT,
                        rtSent, refreshed, bearer, nRefresh, nResource, err>>
    ELSE WalkFetch(p, page.next_token)

\* mutant: after the last page the generator suspends again instead of ending
WalkAdvance_NeverFinishes(p, page, i) ==
    IF i < Len(page.records)
    THEN /\ produced' = [produced EXCEPT ![p] = Append(@, page.records[i + 1])]
         /\ idx' = [idx EXCEPT ![p] = i + 1]
         /\ pc' = [pc EXCEPT ![p] = "yielded"]
         /\ UNCHANGED <<next_token, calls, expiredRet, entryRT, rtSent,
                        refreshed, bearer, nRefresh, nResource, err>>
    ELSE IF ~Truthy(page.next_token)
    THEN /\ pc' = [pc EXCEPT ![p] = "yielded"]
         /\ idx' = [idx EXCEPT ![p] = i]
         /\ UNCHANGED <<next_token, produced, calls, expiredRet, entryRT,
                        rtSent, refreshed, bearer, nRefresh, nResource, err>>
    ELSE WalkFetch(p, page.next_token)

\* iterate_cycles from position i of the for loop over `page.records` to its
\* next suspension (client.py:387-393): the yield of the next record, the end
\* of the walk, or the next fetch
WalkAdvance(p, page, i) ==
    IF i < Len(page.records)
    THEN /\ produced' = [produced EXCEPT ![p] = Append(@, page.records[i + 1])]
         /\ idx' = [idx EXCEPT ![p] = i + 1]
         /\ pc' = [pc EXCEPT ![p] = "yielded"]
         /\ UNCHANGED <<next_token, calls, expiredRet, entryRT, rtSent,
                        refreshed, bearer, nRefresh, nResource, err>>
    ELSE IF ~Truthy(page.next_token)
    THEN /\ pc' = [pc EXCEPT ![p] = "done"]
         /\ UNCHANGED <<next_token, idx, produced, calls, expiredRet, entryRT,
                        rtSent, refreshed, bearer, nRefresh, nResource, err>>
    ELSE WalkFetch(p, page.next_token)

\* arguments a caller passes to iterate_cycles
WalkArgs ==
    { [page_size |-> 10, start |-> None, end |-> None],
      [page_size |-> 25, start |-> "d1", end |-> None],
      [page_size |-> 30, start |-> "d1", end |-> "d2"] }

\* mutant: iterate_cycles(...) itself fetches the first page
WalkCreate_Eager(p, a) ==
    /\ Free(p)
    /\ op' = [op EXCEPT ![p] = "walk"]
    /\ wargs' = [wargs EXCEPT ![p] = a]
    /\ next_token' = [next_token EXCEPT ![p] = None]
    /\ pages' = [pages EXCEPT ![p] = <<>>]
    /\ idx' = [idx EXCEPT ![p] = 0]
    /\ produced' = [produced EXCEPT ![p] = <<>>]
    /\ calls' = [calls EXCEPT ![p] =
                   <<CollectionParams(a.page_size, a.start, a.end, None)>>]
    /\ GatewayEntry(p)
    /\ ret' = [ret EXCEPT ![p] = NoRet]
    /\ UNCHANGED <<authVars, now, scopes, ctor>>

\* a caller calls iterate_cycles(...): the generator object is created and
\* none of its body runs (client.py:364-369)
WalkCreate(p, a) ==
    /\ Free(p)
    /\ op' = [op EXCEPT ![p] = "walk"]
    /\ pc' = [pc EXCEPT ![p] = "created"]
    /\ wargs' = [wargs EXCEPT ![p] = a]
    /\ next_token' = [next_token EXCEPT ![p] = None]
    /\ pages' = [pages EXCEPT ![p] = <<>>]
    /\ idx' = [idx EXCEPT ![p] = 0]
    /\ produced' = [produced EXCEPT ![p] = <<>>]
    /\ calls' = [calls EXCEPT ![p] = <<>>]
    /\ ClearRequest(p)
    /\ ret' = [ret EXCEPT ![p] = NoRet]
    /\ UNCHANGED <<authVars, now, scopes, ctor>>

\* the consumer demands the next item (__anext__): the generator starts
\* (client.py:380-385) or resumes after its yield (client.py:387-393)
WalkNext(p) ==
    /\ op[p] = "walk"
    /\ \/ /\ pc[p] = "created"
          /\ WalkFetch(p, None)
       \/ /\ pc[p] = "yielded"
          /\ WalkAdvance(p, pages[p][Len(pages[p])], idx[p])
    /\ UNCHANGED <<authVars, now, scopes, ctor, ret, op, wargs, pages>>

\* mutant: the generator takes a failed page fetch as the end of the walk
PageRespondFrom_SwallowsError(p, Recs, Curs) ==
    /\ pc[p] = "resource_wait"
    /\ op[p] = "walk"
    /\ \/ \E n \in Recs, c \in Curs, wr \in BOOLEAN :
            LET page == PaginatedCycleResponse(
                            ServerBody(Len(pages[p]) + 1, n, c, wr)) IN
            /\ wr \/ n = 0
            /\ Len(pages[p]) < MaxPages
            /\ Len(pages[p]) + 1 = MaxPages => ~Truthy(page.next_token)
            /\ pages' = [pages EXCEPT ![p] = Append(@, page)]
            /\ WalkAdvance(p, page, 0)
       \/ /\ pc' = [pc EXCEPT ![p] = "done"]
          /\ UNCHANGED <<err, expiredRet, entryRT, rtSent, refreshed, bearer,
                         nRefresh, nResource, walkVars>>
    /\ UNCHANGED <<authVars, now, scopes, ctor, ret, op, wargs>>

\* the resource endpoint answers a page fetch of the walk (client.py:106-107,
\* 159) and the generator runs on to its next suspension; the page has a
\* record count from Recs and a cursor from Curs
PageRespondFrom(p, Recs, Curs) ==
    /\ pc[p] = "resource_wait"
    /\ op[p] = "walk"
    /\ \/ \E n \in Recs, c \in Curs, wr \in BOOLEAN :
            LET page == PaginatedCycleResponse(
                            ServerBody(Len(pages[p]) + 1, n, c, wr)) IN
            /\ wr \/ n = 0
            /\ Len(pages[p]) < MaxPages
            /\ Len(pages[p]) + 1 = MaxPages => ~Truthy(page.next_token)
            /\ pages' = [pages EXCEPT ![p] = Append(@, page)]
            /\ WalkAdvance(p, page, 0)
       \/ \* non-2xx: raise_for_status raises out of the generator
          /\ pc' = [pc EXCEPT ![p] = "failed"]
          /\ \E s \in ErrorStatuses :
                err' = [err EXCEPT ![p] = HTTPStatusError(s)]
          /\ UNCHANGED <<expiredRet, entryRT, rtSent, refreshed, bearer,
                         nRefresh, nResource, walkVars>>
       \/ \* 2xx with a body PaginatedCycleResponse(**...) rejects
          /\ pc' = [pc EXCEPT ![p] = "failed"]
          /\ err' = [err EXCEPT ![p] = "ValidationError"]
          /\ UNCHANGED <<expiredRet, entryRT, rtSent, refreshed, bearer,
                         nRefresh, nResource, walkVars>>
    /\ UNCHANGED <<authVars, now, scopes, ctor, ret, op, wargs>>

PageRespond(p) == PageRespondFrom(p, 0..MaxRecs, PageCursors)

\* the consumer drops the generator while it is suspended before its first
\* statement or at its yield (client.py:388): aclose() raises GeneratorExit
\* there and none of the loop runs again
WalkAbandon(p) ==
    /\ op[p] = "walk"
    /\ pc[p] \in {"created", "yielded"}
    /\ pc' = [pc EXCEPT ![p] = "closed"]
    /\ UNCHANGED <<authVars, now, scopes, ctor, ret, op, expiredRet, entryRT, rtSent, refreshed,
                   bearer, nRefresh, nResource, err, walkVars>>

\* states of a generator whose body has returned, raised or been closed
Ended == {"done", "failed", "closed", "exhausted"}

\* mutant: a demand on a finished generator starts the walk again
WalkNextAfterEnd_Restart(p) ==
    /\ op[p] = "walk"
    /\ pc[p] \in Ended
    /\ pages' = [pages EXCEPT ![p] = <<>>]
    /\ WalkFetch(p, None)
    /\ UNCHANGED <<authVars, now, scopes, ctor, ret, op, wargs>>

\* the consumer demands an item of a generator that has finished: __anext__
\* raises StopAsyncIteration and no statement of iterate_cycles runs
WalkNextAfterEnd(p) ==
    /\ op[p] = "walk"
    /\ pc[p] \in Ended
    /\ pc' = [pc EXCEPT ![p] = "exhausted"]
    /\ UNCHANGED <<authVars, now, scopes, ctor, ret, op, expiredRet, entryRT, rtSent, refreshed,
                   bearer, nRefresh, nResource, err, walkVars>>

\* the four collection accessors, whose bodies differ in path and model only
Collections ==
    {"get_cycle_collection", "get_recovery_collection",
     "get_sleep_collection", "get_workout_collection"}

\* arguments a caller passes to an accessor, limits on both sides of the cap
AccessorArgs ==
    { [limit |-> -1, start |-> None, end |-> None, next_token |-> None],
      [limit |-> 10, start |-> "d1", end |-> None, next_token |-> ""],
      [limit |-> 25, start |-> None, end |-> "d2", next_token |-> "t1"],
      [limit |-> 26, start |-> "d1", end |-> "d2", next_token |-> "t1"] }

\* a caller awaits the collection accessor k (client.py:126-159, 161-211,
\* 231-281, 310-360): the query is built and _request awaited at once.
\* wargs and next_token hold the accessor's own parameters.
CollectionCall(p, k, limit, start, end, nt) ==
    /\ Free(p)
    /\ op' = [op EXCEPT ![p] = k]
    /\ wargs' = [wargs EXCEPT ![p] =
                   [page_size |-> limit, start |-> start, end |-> end]]
    /\ next_token' = [next_token EXCEPT ![p] = nt]
    /\ pages' = [pages EXCEPT ![p] = <<>>]
    /\ idx' = [idx EXCEPT ![p] = 0]
    /\ produced' = [produced EXCEPT ![p] = <<>>]
    /\ calls' = [calls EXCEPT ![p] =
                   <<CollectionParams(limit, start, end, nt)>>]
    /\ GatewayEntry(p)
    /\ ret' = [ret EXCEPT ![p] = NoRet]
    /\ UNCHANGED <<authVars, now, scopes, ctor>>

\* the resource endpoint answers a collection accessor (client.py:106-107,
\* 159): the decoded page is returned to the caller
CollectionRespond(p) ==
    /\ pc[p] = "resource_wait"
    /\ op[p] \in Collections
    /\ \/ \E n \in 0..MaxRecs, c \in PageCursors :
            /\ pages' = [pages EXCEPT ![p] =
                           <<PaginatedCycleResponse(ServerBody(1, n, c, TRUE))>>]
            /\ pc' = [pc EXCEPT ![p] = "done"]
            /\ UNCHANGED err
       \/ /\ pc' = [pc EXCEPT ![p] = "failed"]
          /\ \E s \in ErrorStatuses :
                err' = [err EXCEPT ![p] = HTTPStatusError(s)]
          /\ UNCHANGED pages
       \/ /\ pc' = [pc EXCEPT ![p] = "failed"]
          /\ err' = [err EXCEPT ![p] = "ValidationError"]
          /\ UNCHANGED pages
    /\ UNCHANGED <<authVars, now, scopes, ctor, ret, op, expiredRet, entryRT, rtSent, refreshed,
                   bearer, nRefresh, nResource, wargs, next_token, idx,
                   produced, calls>>

\* mutant: is_token_expired() forgets a credential it finds expired
IsTokenExpiredCall_Forgets(p) ==
    /\ Free(p)
    /\ op' = [op EXCEPT ![p] = "is_token_expired"]
    /\ pc' = [pc EXCEPT ![p] = "done"]
    /\ expiredRet' = [expiredRet EXCEPT ![p] = is_token_expired]
    /\ entryRT' = [entryRT EXCEPT ![p] = None]
    /\ rtSent' = [rtSent EXCEPT ![p] = None]
    /\ refreshed' = [refreshed EXCEPT ![p] = FALSE]
    /\ bearer' = [bearer EXCEPT ![p] = None]
    /\ nRefresh' = [nRefresh EXCEPT ![p] = 0]
    /\ nResource' = [nResource EXCEPT ![p] = 0]
    /\ err' = [err EXCEPT ![p] = None]
    /\ ClearWalk(p)
    /\ ret' = [ret EXCEPT ![p] = NoRet]
    /\ IF is_token_expired
       THEN token_data' = <<>> /\ token_expiry' = <<>> /\ issue_time' = <<>>
       ELSE UNCHANGED authVars
    /\ UNCHANGED <<now, scopes, ctor>>

\* a caller calls OAuth2Handler.is_token_expired() (auth.py:185-193)
IsTokenExpiredCall(p) ==
    /\ Free(p)
    /\ op' = [op EXCEPT ![p] = "is_token_expired"]
    /\ pc' = [pc EXCEPT ![p] = "done"]
    /\ expiredRet' = [expiredRet EXCEPT ![p] = is_token_expired]
    /\ entryRT' = [entryRT EXCEPT ![p] = None]
    /\ rtSent' = [rtSent EXCEPT ![p] = None]
    /\ refreshed' = [refreshed EXCEPT ![p] = FALSE]
    /\ bearer' = [bearer EXCEPT ![p] = None]
    /\ nRefresh' = [nRefresh EXCEPT ![p] = 0]
    /\ nResource' = [nResource EXCEPT ![p] = 0]
    /\ err' = [err EXCEPT ![p] = None]
    /\ ClearWalk(p)
    /\ ret' = [ret EXCEPT ![p] = NoRet]
    /\ UNCHANGED <<authVars, now, scopes, ctor>>

\* a caller calls OAuth2Handler.refresh_access_token(rt) itself, up to its
\* await of the POST (auth.py:127-148)
RefreshCall(p, rt) ==
    /\ Free(p)
    /\ op' = [op EXCEPT ![p] = "refresh"]
    /\ pc' = [pc EXCEPT ![p] = "refresh_wait"]
    /\ rtSent' = [rtSent EXCEPT ![p] = rt]
    /\ nRefresh' = [nRefresh EXCEPT ![p] = 1]
    /\ expiredRet' = [expiredRet EXCEPT ![p] = FALSE]
    /\ entryRT' = [entryRT EXCEPT ![p] = None]
    /\ refreshed' = [refreshed EXCEPT ![p] = FALSE]
    /\ bearer' = [bearer EXCEPT ![p] = None]
    /\ nResource' = [nResource EXCEPT ![p] = 0]
    /\ err' = [err EXCEPT ![p] = None]
    /\ ClearWalk(p)
    /\ ret' = [ret EXCEPT ![p] = NoRet]
    /\ UNCHANGED <<authVars, now, scopes, ctor>>

\* state arguments of get_authorization_url: None, "", "xyz", "a&state=b"
StateArgs ==
    { <<>>, << <<>> >>, << <<"xyz">> >>, << <<"a", "&", "state", "=", "b">> >> }

\* a caller calls OAuth2Handler.get_authorization_url(state) (auth.py:77-96)
GetAuthorizationUrl(p, state) ==
    /\ Free(p)
    /\ op' = [op EXCEPT ![p] = "get_authorization_url"]
    /\ pc' = [pc EXCEPT ![p] = "done"]
    /\ ret' = [ret EXCEPT ![p] =
                 [NoRet EXCEPT !.url = get_authorization_url(scopes, state)]]
    /\ ClearRequest(p)
    /\ ClearWalk(p)
    /\ UNCHANGED <<authVars, now, scopes, ctor>>

\* lifetimes a caller restores with set_tokens
CallerExpiresIn == {0, DefaultExpiresIn}

\* OAuth2Handler.set_tokens (auth.py:195-209), called between two awaits
SetTokens(at, rt, e) ==
    /\ store_token(TokenResponse(at, "bearer", e, rt, None))
    /\ UNCHANGED <<now, scopes, ctor, ret, op, gwVars, walkVars>>

\* the clock advances: by one second, or by the buffered default lifetime
Tick ==
    /\ \/ /\ now % (DefaultExpiresIn - Buffer) < MaxTicks
          /\ now' = now + 1
       \/ /\ now < DefaultExpiresIn - Buffer
          /\ now' = now + (DefaultExpiresIn - Buffer)
    /\ UNCHANGED <<authVars, scopes, ctor, ret, op, gwVars, walkVars>>

\* scopes arguments of the constructor: None, [], and a list of two
ScopeArgs ==
    { <<>>, << <<>> >>,
      << << <<"read", ":", "profile">>, <<"read", ":", "sleep">> >> >> }

\* mutant: the constructor restores the pair as already expired
Construct_Expired(Args, Toks) ==
    /\ now = 0
    /\ \E sc \in Args : scopes = IF TruthyOpt(sc) THEN sc[1] ELSE DefaultScopes
    /\ ret = [p \in Procs |-> NoRet]
    /\ ctor \in Toks
    /\ IF Truthy(ctor.access_token) /\ Truthy(ctor.refresh_token)
       THEN /\ token_data = <<TokenResponse(ctor.access_token, "bearer", DefaultExpiresIn,
                                            ctor.refresh_token, None)>>
            /\ token_expiry = <<now>>
            /\ issue_time = <<now>>
       ELSE /\ token_data = <<>>
            /\ token_expiry = <<>>
            /\ issue_time = <<>>
    /\ pc = [p \in Procs |-> "idle"]
    /\ op = [p \in Procs |-> "none"]
    /\ expiredRet = [p \in Procs |-> FALSE]
    /\ entryRT = [p \in Procs |-> None]
    /\ rtSent = [p \in Procs |-> None]
    /\ refreshed = [p \in Procs |-> FALSE]
    /\ bearer = [p \in Procs |-> None]
    /\ nRefresh = [p \in Procs |-> 0]
    /\ nResource = [p \in Procs |-> 0]
    /\ err = [p \in Procs |-> None]
    /\ wargs = [p \in Procs |-> NoArgs]
    /\ next_token = [p \in Procs |-> None]
    /\ pages = [p \in Procs |-> <<>>]
    /\ idx = [p \in Procs |-> 0]
    /\ produced = [p \in Procs |-> <<>>]
    /\ calls = [p \in Procs |-> <<>>]

\* mutant: the constructor stores whatever token it is given
Construct_KeepsPartial(Args, Toks) ==
    /\ now = 0
    /\ \E sc \in Args : scopes = IF TruthyOpt(sc) THEN sc[1] ELSE DefaultScopes
    /\ ret = [p \in Procs |-> NoRet]
    /\ ctor \in Toks
    /\ IF Truthy(ctor.access_token) \/ Truthy(ctor.refresh_token)
       THEN /\ token_data = <<TokenResponse(ctor.access_token, "bearer", DefaultExpiresIn,
                                            ctor.refresh_token, None)>>
            /\ token_expiry = <<ExpiryFor(token_data[1], now)>>
            /\ issue_time = <<now>>
       ELSE /\ token_data = <<>>
            /\ token_expiry = <<>>
            /\ issue_time = <<>>
    /\ pc = [p \in Procs |-> "idle"]
    /\ op = [p \in Procs |-> "none"]
    /\ expiredRet = [p \in Procs |-> FALSE]
    /\ entryRT = [p \in Procs |-> None]
    /\ rtSent = [p \in Procs |-> None]
    /\ refreshed = [p \in Procs |-> FALSE]
    /\ bearer = [p \in Procs |-> None]
    /\ nRefresh = [p \in Procs |-> 0]
    /\ nResource = [p \in Procs |-> 0]
    /\ err = [p \in Procs |-> None]
    /\ wargs = [p \in Procs |-> NoArgs]
    /\ next_token = [p \in Procs |-> None]
    /\ pages = [p \in Procs |-> <<>>]
    /\ idx = [p \in Procs |-> 0]
    /\ produced = [p \in Procs |-> <<>>]
    /\ calls = [p \in Procs |-> <<>>]

\* WhoopClient.__init__ (client.py:58-64) over OAuth2Handler.__init__
\* (auth.py:59-75), its scopes argument drawn from Args: the default scopes
\* replace a missing or empty list, tokens are stored only when both are
\* given
Construct(Args, Toks) ==
    /\ now = 0
    /\ \E sc \in Args : scopes = IF TruthyOpt(sc) THEN sc[1] ELSE DefaultScopes
    /\ ret = [p \in Procs |-> NoRet]
    /\ ctor \in Toks
    /\ IF Truthy(ctor.access_token) /\ Truthy(ctor.refresh_token)
       THEN /\ token_data = <<TokenResponse(ctor.access_token, "bearer", DefaultExpiresIn,
                                            ctor.refresh_token, None)>>
            /\ token_expiry = <<ExpiryFor(token_data[1], now)>>
            /\ issue_time = <<now>>
       ELSE /\ token_data = <<>>
            /\ token_expiry = <<>>
            /\ issue_time = <<>>
    /\ pc = [p \in Procs |-> "idle"]
    /\ op = [p \in Procs |-> "none"]
    /\ expiredRet = [p \in Procs |-> FALSE]
    /\ entryRT = [p \in Procs |-> None]
    /\ rtSent = [p \in Procs |-> None]
    /\ refreshed = [p \in Procs |-> FALSE]
    /\ bearer = [p \in Procs |-> None]
    /\ nRefresh = [p \in Procs |-> 0]
    /\ nResource = [p \in Procs |-> 0]
    /\ err = [p \in Procs |-> None]
    /\ wargs = [p \in Procs |-> NoArgs]
    /\ next_token = [p \in Procs |-> None]
    /\ pages = [p \in Procs |-> <<>>]
    /\ idx = [p \in Procs |-> 0]
    /\ produced = [p \in Procs |-> <<>>]
    /\ calls = [p \in Procs |-> <<>>]

\* the token arguments of the constructor: a client built with no tokens,
\* and one built with a stored pair (client.py:37-64)
FreshOrRestored ==
    {[access_token |-> None, refresh_token |-> None],
     [access_token |-> "a0", refresh_token |-> "r0"]}

\* a client built with no tokens, which obtains them by exchange_code or
\* set_tokens
Fresh == {[access_token |-> None, refresh_token |-> None]}

\* a client constructed without a scopes argument
Init == Construct({<<>>}, FreshOrRestored)

\* a client that set_tokens restores after construction: set_tokens at
\* time 0 gives the store that the constructor gives a client built with
\* the pair (client.py:63-64)
InitFresh == Construct({<<>>}, Fresh)

Next ==
    \/ \E p \in Procs : RequestStart(p)
    \/ \E p \in Procs : RefreshRespond(p, ServerTokenResponses)
    \/ \E p \in Procs : ResourceRespond(p)
    \/ ExchangeCode(1)
    \/ ExchangeRespond(1)
    \/ IsTokenExpiredCall(1)
    \/ \E e \in CallerExpiresIn : SetTokens("a0", "r0", e)
    \/ Tick

\* the token store and the gateway under every token response, two callers
Spec == InitFresh /\ [][Next]_vars

\* token responses of the walks' environment: a usable rotation, and a
\* response with no refresh token that is expired on arrival
WalkTokenResponses ==
    { TokenResponse("a1", "bearer", Buffer + 1, "r1", "read:cycles"),
      TokenResponse("a2", "bearer", Buffer, None, "read:cycles") }

NextWalk ==
    \/ \E a \in WalkArgs : WalkCreate(1, a)
    \/ WalkNext(1)
    \/ PageRespond(1)
    \/ RefreshRespond(1, WalkTokenResponses)
    \/ Tick

\* one pagination walk at a time through the gateway
SpecWalk == Init /\ [][NextWalk]_vars

\* refresh tokens a caller hands to refresh_access_token
CallerRefreshTokens == {"r0", "r1"}

NextAuth ==
    \/ ExchangeCode(1)
    \/ ExchangeRespond(1)
    \/ \E rt \in CallerRefreshTokens : RefreshCall(1, rt)
    \/ RefreshRespond(1, ServerTokenResponses)
    \/ IsTokenExpiredCall(1)
    \/ \E e \in CallerExpiresIn : SetTokens("a0", "r0", e)
    \/ \E st \in StateArgs : GetAuthorizationUrl(1, st)
    \/ Tick

\* a client constructed with any of the scopes arguments
InitAuth == Construct(ScopeArgs, Fresh)

\* one caller using the OAuth2Handler directly
SpecAuth == InitAuth /\ [][NextAuth]_vars

NextCollections ==
    \/ \E k \in Collections, a \in AccessorArgs :
            CollectionCall(1, k, a.limit, a.start, a.end, a.next_token)
    \/ CollectionRespond(1)
    \/ \E a \in WalkArgs : WalkCreate(1, a)
    \/ WalkNext(1)
    \/ PageRespondFrom(1, {1}, CursorsT1)
    \/ RefreshRespond(1, WalkTokenResponses)
    \/ Tick

\* every query a caller can have built: the four collection accessors
\* called directly, and the page fetches of walks over one-record pages
SpecCollections == Init /\ [][NextCollections]_vars

\* iterate_cycles() with its default arguments (client.py:366-368)
DefaultWalkArgs == [page_size |-> MaxLimit, start |-> None, end |-> None]

\* pages served to the first walk: empty or full
ConsumerRecs == {0, MaxRecs}

NextConsumers ==
    \/ \E p \in Procs : WalkCreate(p, DefaultWalkArgs)
    \/ \E p \in Procs : WalkNext(p)
    \/ PageRespondFrom(1, ConsumerRecs, CursorsT1)
    \/ PageRespondFrom(2, {1}, CursorsT2)
    \/ \E p \in Procs : WalkAbandon(p)
    \/ \E p \in Procs : WalkNextAfterEnd(p)

\* two consumers walking the same client, each served its own cursors and
\* free to abandon its walk or to demand past its end; the clock stands still
SpecConsumers == Init /\ [][NextConsumers]_vars

\* every combination of the constructor's token arguments (client.py:37-64)
TokenArgs ==
    [access_token : {None, "a0"}, refresh_token : {None, "r0"}]

InitConstructed == Construct({<<>>}, TokenArgs)

\* a client as constructed, used for resource requests only: nobody calls
\* exchange_code or set_tokens on it
NextConstructed ==
    \/ \E p \in Procs : RequestStart(p)
    \/ \E p \in Procs : RefreshRespond(p, WalkTokenResponses)
    \/ \E p \in Procs : ResourceRespond(p)
    \/ IsTokenExpiredCall(1)
    \/ Tick

SpecConstructed == InitConstructed /\ [][NextConstructed]_vars

\* a server whose pages all carry the same cursor until its last page, which
\* carries none; the chain has at most MaxPages pages
ChainRespond(p) == PageRespondFrom(p, 0..MaxRecs, CursorsT1)

\* one walk consumed to its end
NextFullWalk ==
    \/ WalkCreate(1, DefaultWalkArgs)
    \/ WalkNext(1)
    \/ ChainRespond(1)

\* `async for` demands the next item as long as the generator has not ended
\* (client.py:364-393), and the server answers every call
FairFullWalk ==
    /\ WF_vars(WalkNext(1))
    /\ WF_vars(ChainRespond(1))

SpecFullWalk == Init /\ [][NextFullWalk]_vars /\ FairFullWalk

\* ------------------------------------------------------------------ claims
\* the coroutine has entered _request (directly or for a page of its walk)
RequestIssued(p) == op[p] \in {"request", "walk"} /\ pc[p] # "created"

\* _request found the token expired and a (non-empty) refresh token on record
NeededRefresh(p) == RequestIssued(p) /\ expiredRet[p] /\ Truthy(entryRT[p])

C1_OneRefresh ==
    \A p \in Procs :
        NeededRefresh(p) =>
            /\ nRefresh[p] = 1
            /\ rtSent[p] # None
            /\ pc[p] = "refresh_wait" => nResource[p] = 0
            /\ nResource[p] = 1 => refreshed[p]

C1_RefreshTokenOnRecord ==
    \A p \in Procs :
        (pc[p] # "refresh_wait" /\ pc'[p] = "refresh_wait") =>
            /\ token_data # <<>>
            /\ rtSent'[p] = token_data[1].refresh_token

\* C1: a request that finds is_token_expired() true and a refresh token on
\* record makes exactly one refresh call, passes it the refresh token of the
\* credential stored at that moment, and dispatches its resource call only
\* after that refresh has returned.
C1_RefreshBeforeResource == []C1_OneRefresh /\ [][C1_RefreshTokenOnRecord]_vars

C1_Witness ==
    /\ NeededRefresh(1)
    /\ pc[1] = "resource_wait"
    /\ nRefresh[1] = 1
    /\ refreshed[1]
    /\ rtSent[1] = "r1"

\* C2: no resource request is dispatched while is_token_expired() is true of
\* the credential whose access token it carries.
C2_NoExpiredDispatch ==
    [][\A p \in Procs :
          (pc[p] # "resource_wait" /\ pc'[p] = "resource_wait") =>
              ~is_token_expired_at(token_expiry', now')]_vars

\* C3: a request made while is_token_expired() is true and no refresh token
\* is on record fails with the authentication error and makes no
\* resource-endpoint call.
C3_ExpiredNoRefreshTokenFails ==
    \A p \in Procs :
        (RequestIssued(p) /\ expiredRet[p] /\ ~Truthy(entryRT[p])) =>
            /\ pc[p] = "failed"
            /\ err[p] = "ValueError"
            /\ nResource[p] = 0

\* C4: while no token has been stored (client built without tokens, no
\* exchange completed), every resource call has failed with the ValueError
\* "no access token available" and has made neither a token-endpoint nor a
\* resource-endpoint call.
C4_NoTokensNoTraffic ==
    token_data = <<>> =>
        \A p \in Procs :
            RequestIssued(p) =>
                /\ pc[p] = "failed"
                /\ err[p] = "ValueError"
                /\ nRefresh[p] = 0
                /\ nResource[p] = 0

C4_Witness ==
    /\ token_data = <<>>
    /\ op[1] = "request"
    /\ pc[1] = "failed"
    /\ err[1] = "ValueError"

\* C5: with no time elapsed since a credential was stored (set_tokens,
\* exchange_code or refresh), is_token_expired() is false when its
\* expires_in is above 300 and true when it is 300 or less.
C5_BufferRule ==
    (token_data # <<>> /\ issue_time = <<now>>) =>
        (is_token_expired <=> token_data[1].expires_in <= Buffer)

C5_Witness ==
    /\ op[1] = "exchange"
    /\ pc[1] = "done"
    /\ token_data # <<>>
    /\ issue_time = <<now>>
    /\ token_data[1].expires_in = Buffer + 1
    /\ ~is_token_expired

\* what is_token_expired() is claimed to return, from the history of stores
ExpiredByHistory ==
    \/ issue_time = <<>>
    \/ now >= issue_time[1] + token_data[1].expires_in - Buffer

C6_Call ==
    \A p \in Procs :
        IsTokenExpiredCall(p) =>
            /\ expiredRet'[p] = ExpiredByHistory
            /\ UNCHANGED <<token_data, token_expiry, issue_time>>
            /\ \A q \in Procs :
                  pc'[q] \in {"refresh_wait", "resource_wait", "exchange_wait"}
                      => pc'[q] = pc[q]

\* C6: is_token_expired() is true exactly when no credential was ever stored
\* or the clock is at or past (store time + expires_in - 300) of the last
\* stored credential; a call of it starts no network call and changes
\* neither the stored credential nor the expiry.
C6_ExpiredIff == [](is_token_expired <=> ExpiredByHistory) /\ [][C6_Call]_vars

C6_Witness ==
    /\ op[1] = "is_token_expired"
    /\ pc[1] = "done"
    /\ expiredRet[1]
    /\ issue_time # <<>>
    /\ issue_time[1] < now
    /\ token_expiry = <<now>>

\* the records of the pages, page after page
RECURSIVE ConcatRecords(_)
ConcatRecords(ps) ==
    IF ps = <<>> THEN <<>>
    ELSE ConcatRecords(SubSeq(ps, 1, Len(ps) - 1)) \o ps[Len(ps)].records

\* C7: the records a walk has yielded are always a prefix of the
\* concatenation of the received pages' records, and a walk that has ended
\* has yielded exactly that concatenation, its last page carrying no cursor.
C7_WalkIsConcatenation ==
    \A p \in Procs :
        op[p] = "walk" =>
            LET all == ConcatRecords(pages[p]) IN
            /\ Len(produced[p]) <= Len(all)
            /\ produced[p] = SubSeq(all, 1, Len(produced[p]))
            /\ pc[p] = "done" =>
                  /\ pages[p] # <<>>
                  /\ ~Truthy(pages[p][Len(pages[p])].next_token)
                  /\ produced[p] = all

C7_Witness ==
    /\ op[1] = "walk"
    /\ pc[1] = "done"
    /\ Len(pages[1]) = 2
    /\ produced[1] = << <<1, 1>>, <<1, 2>>, <<2, 1>> >>

\* a query without its nextToken entry
SansCursor(q) == [k \in (DOMAIN q) \ {"nextToken"} |-> q[k]]

\* C8: the first call of a walk carries no nextToken, every later call
\* carries the next_token of the page before it, and all calls carry the
\* same limit, start and end.
C8_CursorRoundTrip ==
    \A p \in Procs :
        op[p] = "walk" =>
            \A i \in 1..Len(calls[p]) :
                /\ SansCursor(calls[p][i]) = SansCursor(calls[p][1])
                /\ "limit" \in DOMAIN calls[p][i]
                /\ IF i = 1
                   THEN "nextToken" \notin DOMAIN calls[p][i]
                   ELSE /\ i - 1 <= Len(pages[p])
                        /\ "nextToken" \in DOMAIN calls[p][i]
                        /\ calls[p][i].nextToken = pages[p][i - 1].next_token

C8_Witness ==
    /\ op[1] = "walk"
    /\ Len(calls[1]) = 3
    /\ pages[1][1].next_token = "t1"
    /\ pages[1][2].next_token = "t2"
    /\ calls[1][3].nextToken = "t2"
    /\ "start" \in DOMAIN calls[1][3]

\* the i-th received page has no records, and its cursor satisfies Has
EmptyPageContinues(p, i, Has(_)) ==
    (pages[p][i].records = <<>> /\ Has(pages[p][i].next_token)) =>
        /\ Len(calls[p]) >= i + 1
        /\ "nextToken" \in DOMAIN calls[p][i + 1]
        /\ calls[p][i + 1].nextToken = pages[p][i].next_token
        /\ i = Len(pages[p]) => pc[p] # "done"

NonNull(c) == c # None

\* C9 as stated: after a page with zero records and a non-null next_token
\* the walk has not ended and the next call carries that cursor.
C9_EmptyPageNonNullCursor ==
    \A p \in Procs :
        op[p] = "walk" =>
            \A i \in 1..Len(pages[p]) : EmptyPageContinues(p, i, NonNull)

\* supporting: after a page with zero records and a next_token that is
\* neither null nor the empty string the walk has not ended and the next
\* call carries that cursor.
C9_EmptyPageNonEmptyCursor ==
    \A p \in Procs :
        op[p] = "walk" =>
            \A i \in 1..Len(pages[p]) : EmptyPageContinues(p, i, Truthy)

C9_Witness ==
    /\ op[1] = "walk"
    /\ Len(pages[1]) = 1
    /\ pages[1][1].records = <<>>
    /\ pages[1][1].next_token = "t1"
    /\ pc[1] = "resource_wait"
    /\ calls[1][2].nextToken = "t1"

\* C10: once a page with a null or absent next_token has been received it
\* stays the last page: the walk makes no further call, is suspended at a
\* yield of that page or has ended, and has ended only after yielding all of
\* that page's records; the calls made equal the index of that page.
C10_NullCursorEndsWalk ==
    \A p \in Procs :
        op[p] = "walk" =>
            \A i \in 1..Len(pages[p]) :
                pages[p][i].next_token = None =>
                    /\ i = Len(pages[p])
                    /\ Len(calls[p]) = i
                    /\ pc[p] \in {"yielded", "done"}
                    /\ pc[p] = "done" => idx[p] = Len(pages[p][i].records)
                    /\ pc[p] = "yielded" => idx[p] >= 1

C10_Witness ==
    /\ op[1] = "walk"
    /\ pc[1] = "done"
    /\ Len(pages[1]) = 2
    /\ Len(calls[1]) = 2
    /\ pages[1][1].next_token = "t2"
    /\ pages[1][2].next_token = None
    /\ Len(produced[1]) = 3

\* the limit the query must carry for a caller's limit or page_size
ClampedLimit(n) == IF n > MaxLimit THEN MaxLimit ELSE n

\* C11: every query built by a collection accessor or by a page fetch of a
\* walk carries limit = 25 when the caller's limit / page_size is above 25
\* and the caller's value when it is 25 or less; the call is never refused:
\* a collection call always issues its one request.
C11_LimitClamped ==
    \A p \in Procs :
        /\ op[p] \in Collections \cup {"walk"} =>
              \A i \in 1..Len(calls[p]) :
                  /\ "limit" \in DOMAIN calls[p][i]
                  /\ calls[p][i].limit = ClampedLimit(wargs[p].page_size)
        /\ op[p] \in Collections =>
              /\ Len(calls[p]) = 1
              /\ nRefresh[p] + nResource[p] >= 1 \/ err[p] = "ValueError"

C11_Witness ==
    /\ op[1] = "get_sleep_collection"
    /\ pc[1] = "done"
    /\ wargs[1].page_size = 26
    /\ calls[1][1].limit = MaxLimit
    /\ "nextToken" \in DOMAIN calls[1][1]

\* a network call is in flight for the coroutine
Waiting == {"refresh_wait", "resource_wait"}

C12_NothingBeforeDemand ==
    \A p \in Procs :
        op[p] = "walk" =>
            /\ pc[p] = "created" =>
                  calls[p] = <<>> /\ nRefresh[p] = 0 /\ nResource[p] = 0
            /\ Len(calls[p]) <= Len(pages[p]) + 1
            /\ calls[p] # <<>> =>
                  LET before == ConcatRecords(SubSeq(pages[p], 1, Len(calls[p]) - 1))
                  IN  /\ Len(produced[p]) >= Len(before)
                      /\ SubSeq(produced[p], 1, Len(before)) = before

C12_CallsOnDemandOnly ==
    \A p \in Procs :
        /\ (op'[p] = "walk" /\ pc'[p] \in Waiting /\ pc[p] \notin Waiting) =>
              op[p] = "walk" /\ pc[p] \in {"created", "yielded"}
        /\ (op[p] = "walk" /\ pc[p] = "closed" /\ pc'[p] # "created") =>
              /\ pc'[p] \in {"closed", "exhausted"}
              /\ calls'[p] = calls[p]
              /\ nRefresh'[p] = nRefresh[p]
              /\ nResource'[p] = nResource[p]

\* C12: a walk makes no call before its first item is demanded; the call
\* for page n+1 is made only inside a demand and only after every record of
\* pages 1..n has been yielded; a walk abandoned at a yield makes no
\* further call.
C12_LazyWalk == []C12_NothingBeforeDemand /\ [][C12_CallsOnDemandOnly]_vars

C12_Witness ==
    /\ op[1] = "walk"
    /\ pc[1] = "closed"
    /\ Len(pages[1]) = 2
    /\ Len(calls[1]) = 2
    /\ idx[1] = 1
    /\ Len(pages[1][2].records) = MaxRecs
    /\ Truthy(pages[1][2].next_token)

C13_OwnCursor ==
    \A p \in Procs :
        op[p] = "walk" =>
            /\ calls[p] = <<>> => next_token[p] = None
            /\ Len(calls[p]) <= Len(pages[p]) + 1
            /\ calls[p] # <<>> =>
                  /\ "nextToken" \notin DOMAIN calls[p][1]
                  /\ next_token[p] =
                        IF Len(calls[p]) = 1 THEN None
                        ELSE pages[p][Len(calls[p]) - 1].next_token
                  /\ \A i \in 2..Len(calls[p]) :
                        calls[p][i].nextToken = pages[p][i - 1].next_token

C13_NothingAfterEnd ==
    \A p \in Procs :
        (op[p] = "walk" /\ pc[p] \in Ended /\ pc'[p] # "created") =>
            /\ pc'[p] \in Ended
            /\ produced'[p] = produced[p]
            /\ calls'[p] = calls[p]
            /\ pages'[p] = pages[p]
            /\ nRefresh'[p] = nRefresh[p]
            /\ nResource'[p] = nResource[p]

\* C13: a demand on a walk that has ended yields nothing and makes no call;
\* every walk starts with a null cursor and each of its later calls carries
\* the cursor of its own previous page, whatever an earlier or interleaved
\* walk on the same client received.
C13_IndependentWalks == []C13_OwnCursor /\ [][C13_NothingAfterEnd]_vars

C13_Witness ==
    /\ op[1] = "walk"
    /\ pc[1] = "exhausted"
    /\ Len(calls[1]) = 2
    /\ next_token[1] = "t1"
    /\ Len(produced[1]) = MaxRecs
    /\ op[2] = "walk"
    /\ pc[2] = "yielded"
    /\ Len(calls[2]) = 2
    /\ next_token[2] = "t2"

C14_AtMostOneCall ==
    \A p \in Procs :
        op[p] = "request" => nResource[p] <= 1 /\ nRefresh[p] <= 1

C14_FailureReturns ==
    \A p \in Procs, s \in ErrorStatuses :
        ResourceReply(p, s) =>
            /\ pc'[p] = "failed"
            /\ err'[p] = HTTPStatusError(s)
            /\ nResource'[p] = 1
            /\ nRefresh'[p] = nRefresh[p]
            /\ UNCHANGED <<token_data, token_expiry, issue_time>>
            /\ \A q \in Procs :
                  pc'[q] \in {"refresh_wait", "resource_wait", "exchange_wait"}
                      => pc'[q] = pc[q]

\* C14: a non-2xx answer of the resource endpoint (401 and 404 included)
\* ends the request with the HTTPStatusError of that status; the request
\* has made exactly one resource call, and the answer starts no retry and
\* no refresh.
C14_NoRetryOnHttpError == []C14_AtMostOneCall /\ [][C14_FailureReturns]_vars

C14_Witness ==
    /\ op[1] = "request"
    /\ pc[1] = "failed"
    /\ err[1] = HTTPStatusError(401)
    /\ nResource[1] = 1
    /\ nRefresh[1] = 1
    /\ refreshed[1]

\* the implicit refresh of p's request fails in this step
RefreshFails(p) ==
    /\ op[p] = "request"
    /\ pc[p] = "refresh_wait"
    /\ pc'[p] # "refresh_wait"
    /\ ~refreshed'[p]

\* what refresh_access_token raises when the token endpoint refuses or
\* answers with a body that is no TokenResponse
RefreshErrors ==
    {HTTPStatusError(s) : s \in TokenErrorStatuses} \cup {"ValidationError"}

\* C15 as stated: when the implicit refresh fails, the request fails with
\* the "no access token available" error and dispatches no resource call.
C15_RefreshFailureIsNoToken ==
    [][\A p \in Procs :
          RefreshFails(p) =>
              /\ pc'[p] = "failed"
              /\ err'[p] = "ValueError"
              /\ nResource'[p] = 0]_vars

\* C15 amended: when the implicit refresh fails, the request fails with the
\* error refresh_access_token raised (the token endpoint's HTTPStatusError
\* or the ValidationError of its body), the token store is left as it was,
\* and no resource call is dispatched.
C15_RefreshFailureSurfaces ==
    [][\A p \in Procs :
          RefreshFails(p) =>
              /\ pc'[p] = "failed"
              /\ err'[p] \in RefreshErrors
              /\ nResource'[p] = 0
              /\ bearer'[p] = None
              /\ UNCHANGED <<token_data, token_expiry, issue_time>>]_vars

C15_Witness ==
    /\ op[1] = "request"
    /\ pc[1] = "failed"
    /\ nRefresh[1] = 1
    /\ ~refreshed[1]
    /\ err[1] = HTTPStatusError(400)
    /\ nResource[1] = 0
    /\ Truthy(access_token)

\* C18: in every state, whichever coroutine is suspended where, the stored
\* credential is None exactly when the stored expiry is None, and otherwise
\* the expiry is the store time of that credential plus its expires_in
\* minus 300.
C18_PairedFields ==
    /\ token_data = <<>> <=> token_expiry = <<>>
    /\ token_data # <<>> =>
          /\ issue_time # <<>>
          /\ token_expiry # <<>>
          /\ token_expiry[1] = issue_time[1] + token_data[1].expires_in - Buffer

C18_Witness ==
    /\ pc[1] = "exchange_wait"
    /\ pc[2] = "resource_wait"
    /\ refreshed[2]
    /\ token_data # <<>>
    /\ token_data[1].expires_in = Buffer + 1
    /\ issue_time # <<>>
    /\ issue_time[1] > 0
    /\ token_expiry = <<issue_time[1] + 1>>

\* a direct refresh_access_token call of p returns in this step
RefreshReturns(p) ==
    op[p] = "refresh" /\ pc[p] = "refresh_wait" /\ pc'[p] = "done"

\* C16: after a successful refresh whose response carries no refresh_token,
\* the refresh token on record is the one that was on record before.
C16_RefreshTokenRetained ==
    [][\A p \in Procs :
          (RefreshReturns(p) /\ ret'[p].token[1].refresh_token = None) =>
              refresh_token' = refresh_token]_vars

\* exchange_code of p returns in this step
ExchangeReturns(p) == pc[p] = "exchange_wait" /\ pc'[p] = "done"

C17_Superseded ==
    /\ \A p \in Procs :
          (ExchangeReturns(p) \/ RefreshReturns(p)) =>
              /\ ret'[p].token # <<>>
              /\ ret'[p].token[1] \in ServerTokenResponses
              /\ token_data' = ret'[p].token
    /\ \A e \in CallerExpiresIn :
          SetTokens("a0", "r0", e) =>
              token_data' = <<TokenResponse("a0", "bearer", e, "r0", None)>>

\* C17: after exchange_code or refresh_access_token returns, the stored
\* credential equals the returned one, which is the decoded response, field
\* by field; after set_tokens it is the credential built from the arguments
\* (token_type "bearer", no scope); nothing of the previous credential is
\* kept.
C17_SupersededWholesale == [][C17_Superseded]_vars

C17_Witness ==
    /\ op[1] = "refresh"
    /\ pc[1] = "done"
    /\ rtSent[1] = "r0"
    /\ ret[1].token = token_data
    /\ token_data[1].refresh_token = None
    /\ token_data[1].scope = "read:cycles"

\* no coroutine starts a network call in this step
NoCallStarted ==
    \A q \in Procs :
        pc'[q] \in {"refresh_wait", "resource_wait", "exchange_wait"}
            => pc'[q] = pc[q]

\* this step changes _token_data or _token_expiry
StoreChanged == token_data' # token_data \/ token_expiry' # token_expiry

\* a step of one of the three operations the claim lists as pure
QuietCall ==
    \/ \E st \in StateArgs : GetAuthorizationUrl(1, st)
    \/ IsTokenExpiredCall(1)
    \/ \E e \in CallerExpiresIn : SetTokens("a0", "r0", e)

\* C19 as stated: get_authorization_url, is_token_expired and set_tokens
\* start no network call and leave _token_data and _token_expiry as they
\* are (exchange_code and refresh_access_token are the only operations that
\* do either).
C19_OnlyExchangeAndRefreshMutate ==
    [][QuietCall => (NoCallStarted /\ ~StoreChanged)]_vars

C19_Frame ==
    /\ QuietCall => NoCallStarted
    /\ ((\E st \in StateArgs : GetAuthorizationUrl(1, st))
           \/ IsTokenExpiredCall(1)) => ~StoreChanged
    /\ ~NoCallStarted =>
          (ExchangeCode(1) \/ \E rt \in CallerRefreshTokens : RefreshCall(1, rt))
    /\ StoreChanged =>
          \/ ExchangeRespond(1)
          \/ RefreshRespond(1, ServerTokenResponses)
          \/ \E e \in CallerExpiresIn : SetTokens("a0", "r0", e)

\* C19 amended: exchange_code and refresh_access_token are the only
\* operations of the handler that start a network call;
\* get_authorization_url and is_token_expired change neither _token_data nor
\* _token_expiry; these two fields are changed by exchange_code,
\* refresh_access_token and set_tokens only.
C19_FrameOfHandler == [][C19_Frame]_vars

C19_Witness ==
    /\ op[1] = "get_authorization_url"
    /\ pc[1] = "done"
    /\ token_data # <<>>
    /\ token_data[1].expires_in = 0
    /\ token_data[1].scope = None
    /\ issue_time # <<>>
    /\ issue_time[1] > 0

\* str s has t as a substring
Contains(s, t) ==
    \E i \in 1..(Len(s) - Len(t) + 1) : SubSeq(s, i, i + Len(t) - 1) = t

\* the URL has the four fixed parameters of a handler with scopes sc
HasFixedParams(url, sc) ==
    /\ Contains(url, <<"response_type", "=", "code">>)
    /\ Contains(url, <<"client_id", "=">> \o QuotePlus(ClientId))
    /\ Contains(url, <<"redirect_uri", "=">> \o QuotePlus(RedirectUri))
    /\ Contains(url, <<"scope", "=">> \o QuotePlus(Join(sc, <<" ">>)))

\* the URL has a state parameter
HasState(url) == Contains(url, <<"&", "state", "=">>)

\* C20 as stated: the URL get_authorization_url returns has response_type=
\* code, client_id, redirect_uri and the space-joined scope, and has a state
\* parameter exactly when the caller supplied a state, the empty string
\* included.
C20_StateIffSupplied ==
    [][\A st \in StateArgs :
          GetAuthorizationUrl(1, st) =>
              /\ HasFixedParams(ret'[1].url, scopes)
              /\ HasState(ret'[1].url) <=> st # <<>>]_vars

\* supporting: the same with "supplied" read as "a non-empty string", the
\* state then being the last parameter, encoded
C20_StateIffNonEmpty ==
    [][\A st \in StateArgs :
          GetAuthorizationUrl(1, st) =>
              /\ HasFixedParams(ret'[1].url, scopes)
              /\ HasState(ret'[1].url) <=> TruthyOpt(st)
              /\ TruthyOpt(st) =>
                    LET tail == <<"&", "state", "=">> \o QuotePlus(st[1])
                        n == Len(ret'[1].url)
                    IN  /\ n > Len(tail)
                        /\ SubSeq(ret'[1].url, n - Len(tail) + 1, n) = tail]_vars

\* the client was constructed with an access token and a refresh token
RestoredPair == Truthy(ctor.access_token) /\ Truthy(ctor.refresh_token)

\* the credential set_tokens builds from the constructor's pair
CtorCredential ==
    TokenResponse(ctor.access_token, "bearer", DefaultExpiresIn, ctor.refresh_token, None)

\* within the buffered default lifetime counted from construction
WithinDefaultLifetime == now < DefaultExpiresIn - Buffer

\* C21, first half: while the default lifetime of a client constructed with
\* the pair runs, the pair is on record with the expiry of expires_in = 3600
\* and is_token_expired() is false.
C21_RestoredNotExpired ==
    (RestoredPair /\ WithinDefaultLifetime) =>
        /\ token_data = <<CtorCredential>>
        /\ token_expiry = <<DefaultExpiresIn - Buffer>>
        /\ ~is_token_expired

\* C21, second half: a resource request such a client starts in that time is
\* dispatched at once with the injected access token, calls the token
\* endpoint not at all and leaves the store alone.
C21_RestoredDispatches ==
    \A p \in Procs :
        (RequestStart(p) /\ RestoredPair /\ WithinDefaultLifetime) =>
            /\ pc'[p] = "resource_wait"
            /\ bearer'[p] = ctor.access_token
            /\ nRefresh'[p] = 0
            /\ nResource'[p] = 1
            /\ UNCHANGED authVars

\* C21: a client constructed with an access and refresh token pair is
\* authenticated without a network exchange: it is not expired right after
\* construction, and its first resource request goes out with the injected
\* access token and without a token-endpoint call.
C21_RestoredClientIsAuthenticated ==
    []C21_RestoredNotExpired /\ [][C21_RestoredDispatches]_vars

\* the first request of a restored client is in flight with the injected token
C21_Witness ==
    /\ RestoredPair
    /\ now = 0
    /\ op[1] = "request" /\ pc[1] = "resource_wait"
    /\ bearer[1] = "a0"
    /\ nRefresh[1] = 0
    /\ op[2] = "none"

\* the client was constructed with exactly one of the two tokens
PartialPair == Truthy(ctor.access_token) # Truthy(ctor.refresh_token)

\* C28: a client constructed with only one of access_token and
\* refresh_token stores no credential: the token supplied is discarded,
\* is_token_expired() is true, and every resource request fails with the
\* "no access token" error without a call to the token endpoint or to the
\* resource endpoint.
C28_PartialPairDiscarded ==
    PartialPair =>
        /\ token_data = <<>>
        /\ token_expiry = <<>>
        /\ access_token = None
        /\ refresh_token = None
        /\ is_token_expired
        /\ (op[1] = "is_token_expired" => expiredRet[1])
        /\ \A p \in Procs :
              RequestIssued(p) =>
                  /\ pc[p] = "failed"
                  /\ err[p] = "ValueError"
                  /\ bearer[p] = None
                  /\ nRefresh[p] = 0
                  /\ nResource[p] = 0

\* a client built with an access token alone has answered is_token_expired()
\* and failed a request, a second later
C28_Witness ==
    /\ ctor = [access_token |-> "a0", refresh_token |-> None]
    /\ now > 0
    /\ op[1] = "is_token_expired" /\ expiredRet[1]
    /\ op[2] = "request" /\ pc[2] = "failed" /\ err[2] = "ValueError"

\* the other coroutine
Other(p) == CHOOSE q \in Procs : q # p

\* the refresh that request p awaits returns in this step
GatewayRefreshReturns(p) ==
    /\ op[p] = "request"
    /\ pc[p] = "refresh_wait"
    /\ refreshed'[p]

\* C22, no deduplication: a request that finds the token expired and a
\* refresh token on record issues a refresh call of its own, whatever the
\* other request is doing.
C22_OwnRefresh ==
    \A p \in Procs :
        (RequestStart(p) /\ is_token_expired /\ Truthy(refresh_token)) =>
            /\ pc'[p] = "refresh_wait"
            /\ nRefresh'[p] = 1
            /\ rtSent'[p] = refresh_token
            /\ pc'[Other(p)] = pc[Other(p)]

\* C22, last writer wins: a returning refresh replaces the credential on
\* record by its response, with the expiry computed from that response at
\* that moment, whether or not the other refresh has already returned; the
\* other request is not disturbed.
C22_LastWriterWins ==
    \A p \in Procs :
        GatewayRefreshReturns(p) =>
            /\ \E tok \in ServerTokenResponses :
                  /\ token_data' = <<tok>>
                  /\ token_expiry' = <<ExpiryFor(tok, now)>>
                  /\ bearer'[p] = tok.access_token
            /\ issue_time' = <<now>>
            /\ pc'[Other(p)] = pc[Other(p)]
            /\ err'[Other(p)] = err[Other(p)]
            /\ bearer'[Other(p)] = bearer[Other(p)]

\* C22, no deadlock: a request that awaits its refresh can always be answered
C22_NoDeadlock ==
    \A p \in Procs :
        pc[p] = "refresh_wait" => ENABLED RefreshRespond(p, ServerTokenResponses)

\* C22: two requests that overlap on an expired token may each issue a
\* refresh of its own; neither blocks or breaks the other, and once both
\* refreshes have returned the store holds the response stored last, with
\* its own expiry.
C22_ConcurrentRefreshes ==
    /\ []C22_NoDeadlock
    /\ [][C22_OwnRefresh]_vars
    /\ [][C22_LastWriterWins]_vars

\* both requests await a refresh of their own
C22_TwoRefreshesInFlight ==
    \A p \in Procs :
        op[p] = "request" /\ pc[p] = "refresh_wait" /\ nRefresh[p] = 1

\* both refreshes, sent with the same refresh token, have returned at
\* different times with different tokens; the store holds the one that
\* returned last
C22_Witness ==
    /\ \A p \in Procs : op[p] = "request" /\ refreshed[p] /\ nRefresh[p] = 1
    /\ rtSent[1] = "r0" /\ rtSent[2] = "r0"
    /\ bearer[1] = "a1" /\ bearer[2] = "a2"
    /\ access_token = "a2"
    /\ issue_time = <<now>>
    /\ now % (DefaultExpiresIn - Buffer) = 1
    /\ pc[1] = "resource_wait"

\* the query that accessor call p sent to _request
QueryOf(p) == calls[p][1]

\* C23: the query of every collection accessor always has limit, has start
\* and end exactly when the caller gave that datetime, in ISO format, has
\* nextToken exactly when the caller gave a cursor (a non-empty string: the
\* accessors take None and "" alike as no cursor), and has no other entry,
\* so that no missing argument is sent as an empty or null entry.
C23_OptionalParamsOmitted ==
    \A p \in Procs :
        op[p] \in Collections =>
            /\ DOMAIN QueryOf(p) \subseteq {"limit", "start", "end", "nextToken"}
            /\ "limit" \in DOMAIN QueryOf(p)
            /\ "start" \in DOMAIN QueryOf(p) <=> wargs[p].start # None
            /\ "end" \in DOMAIN QueryOf(p) <=> wargs[p].end # None
            /\ "nextToken" \in DOMAIN QueryOf(p) <=> Truthy(next_token[p])
            /\ "start" \in DOMAIN QueryOf(p) => QueryOf(p).start = isoformat(wargs[p].start)
            /\ "end" \in DOMAIN QueryOf(p) => QueryOf(p).end = isoformat(wargs[p].end)
            /\ "nextToken" \in DOMAIN QueryOf(p) =>
                  /\ QueryOf(p).nextToken = next_token[p]
                  /\ QueryOf(p).nextToken \notin {None, ""}

\* an accessor was called with an end datetime and a cursor, without a start
C23_Witness ==
    /\ op[1] = "get_workout_collection"
    /\ pc[1] = "resource_wait"
    /\ wargs[1].start = None
    /\ DOMAIN QueryOf(1) = {"limit", "end", "nextToken"}
    /\ QueryOf(1).end = isoformat("d2")
    /\ QueryOf(1).nextToken = "t1"

\* a direct exchange_code or refresh_access_token call of p ends in this step
TokenCallEnds(p) ==
    /\ op[p] \in {"exchange", "refresh"}
    /\ pc[p] \in {"exchange_wait", "refresh_wait"}
    /\ pc'[p] # pc[p]

\* C24: an exchange_code or refresh_access_token call either stores and
\* returns the token endpoint's response, or (non-2xx status, or a body that
\* is no TokenResponse) fails with that error, returns nothing and leaves
\* the credential and the expiry on record exactly as they were, so that an
\* access token on record stays on record.
C24_FailedTokenCallKeepsStore ==
    [][\A p \in Procs :
          TokenCallEnds(p) =>
              \/ /\ pc'[p] = "done"
                 /\ err'[p] = None
                 /\ <<ret'[p].token[1]>> = token_data'
              \/ /\ pc'[p] = "failed"
                 /\ err'[p] \in RefreshErrors
                 /\ ret'[p] = NoRet
                 /\ UNCHANGED <<token_data, token_expiry, issue_time>>
                 /\ access_token' = access_token]_vars

\* a refresh call has been refused with the restored access token still on
\* record
C24_Witness ==
    /\ op[1] = "refresh"
    /\ pc[1] = "failed"
    /\ err[1] = HTTPStatusError(400)
    /\ access_token = "a0"
    /\ token_expiry = <<DefaultExpiresIn - Buffer>>
    /\ ret[1] = NoRet

\* C25, liveness: a walk that is consumed to its end, against a server that
\* answers every fetch and whose cursor chain is finite, ends: with its last
\* page consumed, or at a fetch that failed.
C25_WalkEnds ==
    (op[1] = "walk" /\ pc[1] = "created") ~>
        (op[1] = "walk" /\ pc[1] \in {"done", "failed"})

\* C25, the driver ends a walk on nothing but the cursor: a walk that is
\* done has delivered every record of every page, its last page has no
\* cursor, and every earlier page had one, repeated or not.
C25_EndsOnCursorOnly ==
    (op[1] = "walk" /\ pc[1] = "done") =>
        /\ produced[1] = ConcatRecords(pages[1])
        /\ ~Truthy(pages[1][Len(pages[1])].next_token)
        /\ \A i \in 1..(Len(pages[1]) - 1) : Truthy(pages[1][i].next_token)
        /\ Len(calls[1]) = Len(pages[1])

\* C25: a fully consumed walk terminates whenever every page fetch succeeds
\* and the server's cursor chain is finite; the driver itself bounds neither
\* the number of pages nor detects a repeated cursor.
C25_FullWalkTerminates == C25_WalkEnds /\ []C25_EndsOnCursorOnly

\* a walk has ended after as many pages as the server's chain has, all but
\* the last carrying the same cursor
C25_Witness ==
    /\ op[1] = "walk" /\ pc[1] = "done"
    /\ Len(pages[1]) = MaxPages
    /\ \A i \in 1..(MaxPages - 1) : pages[1][i].next_token = "t1"
    /\ Len(produced[1]) > MaxPages

\* the access tokens a refresh may store during a walk
RefreshedAccessTokens == {"a1", "a2"}

\* the latest fetch of walk p follows a page, and on entering _request for
\* it the token was expired with a refresh token on record
LaterFetchNeededRefresh(p) ==
    /\ op[p] = "walk"
    /\ Len(calls[p]) >= 2
    /\ expiredRet[p]
    /\ Truthy(entryRT[p])

\* C26: every page fetch of a walk passes the expiry check of _request: when
\* the token has expired since the previous fetch and a refresh token is on
\* record, exactly one refresh, sent with that refresh token, precedes the
\* fetch; the fetch carries the access token that refresh stored and the
\* cursor of the previous page; and the records produced are still the
\* records of the pages in their order.
C26_RefreshBetweenPages ==
    \A p \in Procs :
        LaterFetchNeededRefresh(p) =>
            LET n == Len(calls[p]) IN
            /\ nRefresh[p] = 1
            /\ rtSent[p] = entryRT[p]
            /\ pc[p] = "refresh_wait" => nResource[p] = 0 /\ ~refreshed[p]
            /\ nResource[p] = 1 =>
                  /\ refreshed[p]
                  /\ bearer[p] = access_token
                  /\ bearer[p] \in RefreshedAccessTokens
            /\ "nextToken" \in DOMAIN calls[p][n]
            /\ calls[p][n].nextToken = pages[p][n - 1].next_token
            /\ Len(produced[p]) <= Len(ConcatRecords(pages[p]))
            /\ produced[p] = SubSeq(ConcatRecords(pages[p]), 1, Len(produced[p]))

\* a walk has ended whose second fetch waited for a refresh and went out
\* with the refreshed token and the first page's cursor
C26_Witness ==
    /\ op[1] = "walk" /\ pc[1] = "done"
    /\ Len(pages[1]) = 2 /\ Len(calls[1]) = 2
    /\ expiredRet[1] /\ refreshed[1] /\ nRefresh[1] = 1
    /\ bearer[1] = "a1"
    /\ calls[1][2].nextToken = "t1"
    /\ Len(pages[1][1].records) > 0
    /\ produced[1] = pages[1][1].records \o pages[1][2].records

\* what a page fetch raises: the ValueError of _request, the resource
\* endpoint's HTTPStatusError, the ValidationError of the page body
FetchErrors ==
    {"ValueError", "ValidationError"}
        \cup {HTTPStatusError(s) : s \in ErrorStatuses}

\* a page fetch of walk p ends in this step without a page
FetchEndsWithoutPage(p) ==
    /\ op[p] = "walk"
    /\ pc[p] \in {"created", "yielded", "resource_wait"}
    /\ pc'[p] \notin {"resource_wait", "closed"}
    /\ Len(calls'[p]) = Len(pages'[p]) + 1

\* C27, the failure surfaces: a page fetch that ends without a page ends the
\* demand that waits for it with the error; it does not end the walk
\* silently and delivers nothing.
C27_FailureSurfaces ==
    \A p \in Procs :
        FetchEndsWithoutPage(p) =>
            /\ pc'[p] = "failed"
            /\ err'[p] \in FetchErrors
            /\ produced'[p] = produced[p]

\* C27, what was delivered: a failed walk has delivered exactly the records
\* of the pages fetched before the failing fetch.
C27_DeliveredBeforeFailure ==
    \A p \in Procs :
        (op[p] = "walk" /\ pc[p] = "failed") =>
            /\ err[p] \in FetchErrors
            /\ Len(calls[p]) = Len(pages[p]) + 1
            /\ produced[p] = ConcatRecords(pages[p])

\* C27, nothing follows: whatever the consumer does with a failed walk, the
\* walk makes no further call and delivers no further record.
C27_NoCallAfterFailure ==
    \A p \in Procs :
        (op[p] = "walk" /\ pc[p] = "failed" /\ pc'[p] # "created") =>
            /\ calls'[p] = calls[p]
            /\ produced'[p] = produced[p]
            /\ nResource'[p] = nResource[p]
            /\ nRefresh'[p] = nRefresh[p]
            /\ pc'[p] \in {"failed", "exhausted"}

\* C27: a failing page fetch (no access token, HTTP error, undecodable
\* page) surfaces at the demand that triggered it; the records delivered
\* before are exactly those of the earlier pages; no further upstream call
\* is made on that walk.
C27_PageFailureEndsWalk ==
    /\ []C27_DeliveredBeforeFailure
    /\ [][C27_FailureSurfaces]_vars
    /\ [][C27_NoCallAfterFailure]_vars

\* the second fetch of a walk was refused after a first page of MaxRecs
\* records had been delivered
C27_Witness ==
    /\ op[1] = "walk" /\ pc[1] = "failed"
    /\ err[1] = HTTPStatusError(404)
    /\ Len(pages[1]) = 1 /\ Len(calls[1]) = 2
    /\ Len(produced[1]) = MaxRecs
    /\ produced[1] = pages[1][1].records

\* C29: every page whose next_token is a string, the empty string included,
\* is followed by a further call that passes that string as nextToken; a
\* walk ends only on a page whose next_token is null or absent.
C29_EndsOnlyOnNullCursor ==
    \A p \in Procs :
        op[p] = "walk" =>
            /\ pc[p] = "done" => pages[p][Len(pages[p])].next_token = None
            /\ \A i \in 1..Len(pages[p]) :
                  (pages[p][i].next_token # None /\ Len(calls[p]) > i) =>
                      /\ "nextToken" \in DOMAIN calls[p][i + 1]
                      /\ calls[p][i + 1].nextToken = pages[p][i].next_token

\* request p is handed to the transport in this step
Dispatched(p) ==
    /\ op'[p] = "request"
    /\ pc[p] # "resource_wait"
    /\ pc'[p] = "resource_wait"

\* C30, the header: a request is dispatched with the access token that is on
\* record at that moment, after the refresh it waited for has stored its
\* response if it waited for one.
C30_BearerIsTokenOnRecord ==
    \A p \in Procs :
        Dispatched(p) =>
            /\ token_data' # <<>>
            /\ bearer'[p] = token_data'[1].access_token
            /\ Truthy(bearer'[p])
            /\ nResource'[p] = 1
            /\ pc[p] = "refresh_wait" => refreshed'[p] /\ issue_time' = <<now>>

\* C30, the unexpired case: a request made while the token is not expired
\* is dispatched at once, issues no refresh and leaves the store unchanged.
C30_NoRefreshWhileValid ==
    \A p \in Procs :
        (RequestStart(p) /\ ~is_token_expired) =>
            /\ pc'[p] = "resource_wait"
            /\ nRefresh'[p] = 0
            /\ ~refreshed'[p]
            /\ bearer'[p] = access_token
            /\ UNCHANGED <<token_data, token_expiry, issue_time>>

\* C30: the Bearer token of a dispatched request is the access token on
\* record at dispatch: the refreshed one after a successful gateway refresh,
\* never the one the refresh replaced; a request made while the token is not
\* expired issues no refresh and leaves the store unchanged.
C30_BearerAtDispatch ==
    [][C30_BearerIsTokenOnRecord]_vars /\ [][C30_NoRefreshWhileValid]_vars

\* a request that entered with the restored token "a0" expired is in flight
\* with the token its refresh stored
C30_Witness ==
    /\ op[1] = "request" /\ pc[1] = "resource_wait"
    /\ expiredRet[1] /\ rtSent[1] = "r0" /\ refreshed[1]
    /\ bearer[1] = "a2"
    /\ access_token = "a2"
    /\ issue_time = <<now>>
    /\ op[2] = "none"

====
